---- MODULE Spec2Model ----
(***************************************************************************)
(* Zero-knowledge set membership over KZG commitments (src/src/lib.rs).    *)
(*                                                                         *)
(* The pairing groups are modelled generically: a G1 or G2 point is the    *)
(* discrete logarithm of the point to the base g1() resp. g2(), an element *)
(* of the scalar field, and a Gt element is the logarithm to the base      *)
(* e(g1, g2).  The scalar field is the prime field of order P.  The        *)
(* Fiat-Shamir hash is an unknown deterministic function of its four       *)
(* points: the variable oracle records the value it has at every input     *)
(* asked so far, and a new input gets an arbitrary scalar.                 *)
(***************************************************************************)
EXTENDS Integers, Sequences, FiniteSets, TLC

\* order of the scalar field (and of G1, G2 and Gt)
P == 3

\* largest degree handed to setup
MaxDegree == 2

\* longest randomness pool handed to the protocol
MaxPool == 6

Scalars == 0 .. (P - 1)

\* a u128 word always is below the order of the scalar field
Words == 0 .. (P - 1)

None == << >>

Some(v) == << v >>

(***************************************************************************)
(* Curve back-end (src/src/curve.rs)                                       *)
(***************************************************************************)
scalar_from_literal(x) == x % P

RECURSIVE scalar_pow(_, _)
scalar_pow(x, y) == IF y = 0 THEN 1 % P ELSE (x * scalar_pow(x, y - 1)) % P

\* width of one limb of the fast back-end's exponent (a u64 in the source); a
\* literal (a u128 in the source) is two limbs wide
LimbBits == 2

LimbModulus == 2 ^ LimbBits

Literals == 0 .. ((LimbModulus * LimbModulus) - 1)

FastCurve_scalar_from_literal(x) == x % P

\* ((y & 0xFFFFFFFFFFFFFFFF0000000000000000) >> 64) as u64
big_end(y) == ((y - (y % LimbModulus)) \div LimbModulus) % LimbModulus

\* (y & 0x0000000000000000FFFFFFFFFFFFFFFF) as u64
small_end(y) == (y % LimbModulus) % LimbModulus

\* the bits of one limb, most significant first: square, then multiply when set
RECURSIVE Field_pow_limb(_, _, _, _)
Field_pow_limb(x, res, e, i) ==
    IF i = 0 THEN res
    ELSE LET squared == (res * res) % P
             bit == (e \div (2 ^ (i - 1))) % 2
         IN  Field_pow_limb(x, IF bit = 1 THEN (squared * x) % P ELSE squared, e, i - 1)

\* the limbs of a little-endian exponent, last limb first
RECURSIVE Field_pow_from(_, _, _, _)
Field_pow_from(x, res, exp, j) ==
    IF j = 0 THEN res
    ELSE Field_pow_from(x, Field_pow_limb(x, res, exp[j], LimbBits), exp, j - 1)

Field_pow(x, exp) == Field_pow_from(x, 1 % P, exp, Len(exp))

FastCurve_exp_big_first(y) == << big_end(y), small_end(y) >>

FastCurve_exp(y) == << small_end(y), big_end(y) >>

FastCurve_scalar_pow(x, y) == Field_pow(x, FastCurve_exp(y))

scalar_add(x, y) == (x + y) % P

scalar_sub(x, y) == ((x + P) - y) % P

scalar_mul(x, y) == (x * y) % P

g1 == 1

g2 == 1

g1mul(x, y) == (x * y) % P

g2mul(x, y) == (x * y) % P

g1add(x, y) == (x + y) % P

g1sub(x, y) == ((x + P) - y) % P

g2sub(x, y) == ((x + P) - y) % P

pairing(x, y) == (x * y) % P

\* the challenge the hash function orc gives for the transcript (z, n1, n2, h)
fiat_shamir_hash(orc, z, n1, n2, h) == orc[<< z, n1, n2, h >>]

\* the affine coordinates (x, y, inf) of the point with discrete logarithm p;
\* different points have different coordinates, the identity has the flag set
G1Coordinates(p) ==
    IF p = 0 THEN << 0, 0, TRUE >> ELSE << 258 + p, 772 - p, FALSE >>

\* a field element as two bytes, most significant first
to_byte_seq_be(v) == << (v \div 256) % 256, v % 256 >>

g1_to_byte_seq(g) ==
    LET x == G1Coordinates(g)[1]
        y == G1Coordinates(g)[2]
        inf == G1Coordinates(g)[3]
    IN  (to_byte_seq_be(x) \o to_byte_seq_be(y)) \o << IF inf THEN 1 ELSE 0 >>

\* the bytes SpecCurve::fiat_shamir_hash hands to Sha256
SpecCurve_fiat_shamir_bytes(z1, z2, n1, n2, h) ==
    g1_to_byte_seq(g1) \o g1_to_byte_seq(h) \o g1_to_byte_seq(z1) \o g1_to_byte_seq(z2)
        \o g1_to_byte_seq(n1) \o g1_to_byte_seq(n2)

\* the bytes fiat_shamir_hash_verifiable hands to Sha256
fiat_shamir_bytes_verifiable(z, n1, n2, h) ==
    g1_to_byte_seq(g1) \o g1_to_byte_seq(h) \o g1_to_byte_seq(z)
        \o g1_to_byte_seq(n1) \o g1_to_byte_seq(n2)

(***************************************************************************)
(* Polynomial kernel (src/src/lib.rs), coefficients high degree first      *)
(***************************************************************************)
RECURSIVE apply_from(_, _, _)
apply_from(polynomial, x, i) ==
    IF i >= Len(polynomial) THEN scalar_from_literal(0)
    ELSE scalar_add(scalar_mul(polynomial[Len(polynomial) - i], scalar_pow(x, i)),
                    apply_from(polynomial, x, i + 1))

apply(polynomial, x) == apply_from(polynomial, x, 0)

RECURSIVE multiply_at(_, _, _, _)
multiply_at(f, g, k, i) ==
    IF i > Len(f) THEN scalar_from_literal(0)
    ELSE LET j == (k - i) + 1
             rest == multiply_at(f, g, k, i + 1)
         IN  IF j >= 1 /\ j <= Len(g)
             THEN scalar_add(scalar_mul(f[i], g[j]), rest)
             ELSE rest

multiply(f, g) == [k \in 1 .. ((Len(f) + Len(g)) - 1) |-> multiply_at(f, g, k, 1)]

\* a division step that scales the incoming coefficient instead of the quotient
RECURSIVE create_psi_q_scales_term(_, _, _)
create_psi_q_scales_term(r, x0, i) ==
    IF i = 1 THEN r[1]
    ELSE scalar_add(create_psi_q_scales_term(r, x0, i - 1), scalar_mul(r[i], x0))

RECURSIVE create_psi_q(_, _, _)
create_psi_q(r, x0, i) ==
    IF i = 1 THEN r[1]
    ELSE scalar_add(scalar_mul(create_psi_q(r, x0, i - 1), x0), r[i])

\* create_psi that keeps the remainder instead of dropping it
create_psi_keeps_remainder(f, f_x0, x0) ==
    LET r == [f EXCEPT ![Len(f)] = scalar_sub(f[Len(f)], f_x0)]
    IN  [i \in 1 .. Len(r) |-> create_psi_q(r, x0, i)]

\* create_psi that subtracts f_x0 from the leading coefficient
create_psi_subtracts_first(f, f_x0, x0) ==
    LET r == [f EXCEPT ![1] = scalar_sub(f[1], f_x0)]
        q == [i \in 1 .. Len(r) |-> create_psi_q(r, x0, i)]
    IN  SubSeq(q, 1, Len(q) - 1)

create_psi(f, f_x0, x0) ==
    LET r == [f EXCEPT ![Len(f)] = scalar_sub(f[Len(f)], f_x0)]
        q == [i \in 1 .. Len(r) |-> create_psi_q(r, x0, i)]
    IN  SubSeq(q, 1, Len(q) - 1)

RECURSIVE commit_poly_from(_, _, _, _)
commit_poly_from(polynomial, pk, generator, i) ==
    IF i = 0 THEN g1mul(scalar_from_literal(0), generator)
    ELSE g1add(commit_poly_from(polynomial, pk, generator, i - 1),
               g1mul(polynomial[i], pk[(Len(pk) - Len(polynomial)) + i]))

\* commit_poly whose accumulator starts at the generator itself
commit_poly_adds_generator(polynomial, pk, generator) ==
    g1add(generator, commit_poly_from(polynomial, pk, generator, Len(polynomial)))

\* the two ways the crate is built: with and without overflow checks
Builds == { "debug", "release" }

\* usize arithmetic wraps at 2^64; here it wraps at 2^16, far above every
\* length reached
UsizeModulus == 65536

\* commit_poly that asks for a basis longer than the polynomial
commit_poly_panic_strict(build, polynomial, pk) ==
    IF Len(pk) <= Len(polynomial) THEN "Overflow" ELSE "none"

\* the panic commit_poly ends in, if any: pk.len() - polynomial.len() panics
\* with overflow checks and wraps without them, and pk[power_index] panics
\* on an index outside the basis
commit_poly_panic(build, polynomial, pk) ==
    IF build = "debug" /\ Len(pk) < Len(polynomial) THEN "Overflow"
    ELSE LET difference == (Len(pk) - Len(polynomial)) % UsizeModulus
         IN  IF \E i \in 0 .. (Len(polynomial) - 1) :
                   (difference + i) % UsizeModulus >= Len(pk)
             THEN "OutOfBounds"
             ELSE "none"

\* defined when Len(pk) >= Len(polynomial); commit_poly_panic otherwise
commit_poly(polynomial, pk, generator) ==
    commit_poly_from(polynomial, pk, generator, Len(polynomial))

\* create_witness with the first two values of its result exchanged
create_witness_swapped(phi, phi_hat, i, pk) ==
    LET phi_i == apply(phi, i)
        phi_hat_i == apply(phi_hat, i)
        psi == create_psi(phi, phi_i, i)
        psi_hat == create_psi(phi_hat, phi_hat_i, i)
        witness == g1add(commit_poly(psi, pk.g_powers, g1),
                         commit_poly(psi_hat, pk.h_powers, pk.h1))
    IN  << phi_i, i, phi_hat_i, witness >>

\* create_witness whose witness leaves out the commitment to psi_hat
create_witness_unhidden(phi, phi_hat, i, pk) ==
    LET phi_i == apply(phi, i)
        phi_hat_i == apply(phi_hat, i)
        psi == create_psi(phi, phi_i, i)
    IN  << i, phi_i, phi_hat_i, commit_poly(psi, pk.g_powers, g1) >>

create_witness(phi, phi_hat, i, pk) ==
    LET phi_i == apply(phi, i)
        phi_hat_i == apply(phi_hat, i)
        psi == create_psi(phi, phi_i, i)
        psi_hat == create_psi(phi_hat, phi_hat_i, i)
        witness == g1add(commit_poly(psi, pk.g_powers, g1),
                         commit_poly(psi_hat, pk.h_powers, pk.h1))
    IN  << i, phi_i, phi_hat_i, witness >>

(***************************************************************************)
(* Schnorr proof of two discrete logarithms and the verifier               *)
(***************************************************************************)
\* the transcript (z, n1, n2, h) that schnorr_proof hashes
schnorr_transcript(pk, a, b, r1, r2) ==
    << g1add(g1mul(a, g1), g1mul(b, pk.h1)),
       g1mul(scalar_from_literal(r1), g1),
       g1mul(scalar_from_literal(r2), pk.h1),
       pk.h1 >>

\* schnorr_proof with s = r + c*x in place of s = r - c*x
schnorr_proof_adds(orc, pk, a, b, r1w, r2w) ==
    LET r1 == scalar_from_literal(r1w)
        r2 == scalar_from_literal(r2w)
        n1 == g1mul(r1, g1)
        n2 == g1mul(r2, pk.h1)
        z == g1add(g1mul(a, g1), g1mul(b, pk.h1))
        c == fiat_shamir_hash(orc, z, n1, n2, pk.h1)
    IN  << n1, n2, scalar_add(r1, scalar_mul(c, a)), scalar_add(r2, scalar_mul(c, b)) >>

\* schnorr_proof with s1 = r1 - c, the factor a left out
schnorr_proof_drops_a(orc, pk, a, b, r1w, r2w) ==
    LET r1 == scalar_from_literal(r1w)
        r2 == scalar_from_literal(r2w)
        n1 == g1mul(r1, g1)
        n2 == g1mul(r2, pk.h1)
        z == g1add(g1mul(a, g1), g1mul(b, pk.h1))
        c == fiat_shamir_hash(orc, z, n1, n2, pk.h1)
    IN  << n1, n2, scalar_sub(r1, c), scalar_sub(r2, scalar_mul(c, b)) >>

\* schnorr_proof with s1 computed from b in place of a
schnorr_proof_uses_b(orc, pk, a, b, r1w, r2w) ==
    LET r1 == scalar_from_literal(r1w)
        r2 == scalar_from_literal(r2w)
        n1 == g1mul(r1, g1)
        n2 == g1mul(r2, pk.h1)
        z == g1add(g1mul(a, g1), g1mul(b, pk.h1))
        c == fiat_shamir_hash(orc, z, n1, n2, pk.h1)
    IN  << n1, n2, scalar_sub(r1, scalar_mul(c, b)), scalar_sub(r2, scalar_mul(c, b)) >>

\* r1 and r2 are the two words popped from the pool, in that order
schnorr_proof(orc, pk, a, b, r1w, r2w) ==
    LET r1 == scalar_from_literal(r1w)
        r2 == scalar_from_literal(r2w)
        n1 == g1mul(r1, g1)
        n2 == g1mul(r2, pk.h1)
        z1 == g1mul(a, g1)
        z2 == g1mul(b, pk.h1)
        z == g1add(z1, z2)
        c == fiat_shamir_hash(orc, z, n1, n2, pk.h1)
        s1 == scalar_sub(r1, scalar_mul(c, a))
        s2 == scalar_sub(r2, scalar_mul(c, b))
    IN  << n1, n2, s1, s2 >>

\* schnorr_verify that leaves c*Z out of the right-hand side
schnorr_verify_without_cz(orc, pk, z, n1, n2, s1, s2) ==
    g1add(n1, n2) = g1add(g1mul(s1, g1), g1mul(s2, pk.h1))

schnorr_verify(orc, pk, z, n1, n2, s1, s2) ==
    LET c == fiat_shamir_hash(orc, z, n1, n2, pk.h1)
        left == g1add(n1, n2)
        s1g == g1mul(s1, g1)
        s2h == g1mul(s2, pk.h1)
        cz == g1mul(c, z)
        right == g1add(g1add(s1g, s2h), cz)
    IN  left = right

\* verifyeval with the operands of g2sub exchanged
verifyeval_swapped_g2sub(pk, commitment, kj, phi_kj, phi_hat_kj, witness) ==
    LET left == pairing(witness, g2sub(g2mul(kj, g2), pk.alpha_g2))
        ys == g1add(g1mul(phi_kj, g1), g1mul(phi_hat_kj, pk.h1))
        right == pairing(g1sub(commitment, ys), g2)
    IN  left = right

verifyeval(pk, commitment, kj, phi_kj, phi_hat_kj, witness) ==
    LET left == pairing(witness, g2sub(pk.alpha_g2, g2mul(kj, g2)))
        ys == g1add(g1mul(phi_kj, g1), g1mul(phi_hat_kj, pk.h1))
        right == pairing(g1sub(commitment, ys), g2)
    IN  left = right

\* TRUE when verifyzk gets as far as schnorr_verify and so asks for a challenge
verifyzk_hashes(pi_sj, phi_hat_kj) ==
    /\ phi_hat_kj = None
    /\ pi_sj # None
    /\ pi_sj[1][2] # g1mul(pi_sj[1][4], g1)

\* verifyzk without the zero test N1 == s1*g
verifyzk_without_zero_test(orc, pk, commitment, pi_sj, kj, witness, phi_hat_kj) ==
    IF phi_hat_kj # None
    THEN verifyeval(pk, commitment, kj, scalar_from_literal(0), phi_hat_kj[1], witness)
    ELSE IF pi_sj = None THEN FALSE
    ELSE IF ~ schnorr_verify(orc, pk, pi_sj[1][1], pi_sj[1][2], pi_sj[1][3], pi_sj[1][4], pi_sj[1][5])
         THEN FALSE
         ELSE pairing(g1sub(commitment, pi_sj[1][1]), g2)
                = pairing(witness, g2sub(pk.alpha_g2, g2mul(kj, g2)))

\* verifyzk whose pairing check forgets to take Z off the commitment
verifyzk_without_proof(orc, pk, commitment, pi_sj, kj, witness, phi_hat_kj) ==
    IF phi_hat_kj # None
    THEN verifyeval(pk, commitment, kj, scalar_from_literal(0), phi_hat_kj[1], witness)
    ELSE IF pi_sj = None THEN FALSE
    ELSE IF pi_sj[1][2] = g1mul(pi_sj[1][4], g1) THEN FALSE
    ELSE IF ~ schnorr_verify(orc, pk, pi_sj[1][1], pi_sj[1][2], pi_sj[1][3], pi_sj[1][4], pi_sj[1][5])
         THEN FALSE
         ELSE pairing(commitment, g2)
                = pairing(witness, g2sub(pk.alpha_g2, g2mul(kj, g2)))

\* verifyzk that hands the revealed phi_hat(kj) to verifyeval as phi(kj)
verifyzk_evaluation_swapped(orc, pk, commitment, pi_sj, kj, witness, phi_hat_kj) ==
    IF phi_hat_kj # None
    THEN verifyeval(pk, commitment, kj, phi_hat_kj[1], scalar_from_literal(0), witness)
    ELSE IF pi_sj = None THEN FALSE
    ELSE IF pi_sj[1][2] = g1mul(pi_sj[1][4], g1) THEN FALSE
    ELSE IF ~ schnorr_verify(orc, pk, pi_sj[1][1], pi_sj[1][2], pi_sj[1][3], pi_sj[1][4], pi_sj[1][5])
         THEN FALSE
         ELSE pairing(g1sub(commitment, pi_sj[1][1]), g2)
                = pairing(witness, g2sub(pk.alpha_g2, g2mul(kj, g2)))

verifyzk(orc, pk, commitment, pi_sj, kj, witness, phi_hat_kj) ==
    IF phi_hat_kj # None
    THEN verifyeval(pk, commitment, kj, scalar_from_literal(0), phi_hat_kj[1], witness)
    ELSE IF pi_sj = None THEN FALSE
    ELSE LET proof == pi_sj[1][1]
             n1 == pi_sj[1][2]
             n2 == pi_sj[1][3]
             s1 == pi_sj[1][4]
             s2 == pi_sj[1][5]
         IN  IF n1 = g1mul(s1, g1) THEN FALSE
             ELSE IF ~ schnorr_verify(orc, pk, proof, n1, n2, s1, s2) THEN FALSE
             ELSE LET left == pairing(g1sub(commitment, proof), g2)
                      right == pairing(witness, g2sub(pk.alpha_g2, g2mul(kj, g2)))
                  IN  left = right

(***************************************************************************)
(* Setup and commitment as functions of the words they pop                 *)
(***************************************************************************)
\* setup that pushes the powers of alpha in ascending order
setup_pk_ascending(d, rand1, rand2) ==
    LET alpha == scalar_from_literal(rand1)
        h == g1mul(scalar_from_literal(rand2), g1)
    IN  [ g_powers |-> [i \in 1 .. (d + 1) |-> g1mul(scalar_pow(alpha, i - 1), g1)],
          h_powers |-> [i \in 1 .. (d + 1) |-> g1mul(scalar_pow(alpha, i - 1), h)],
          h1 |-> h,
          alpha_g2 |-> g2mul(alpha, g2) ]

\* rand1 is the first word popped (alpha), rand2 the second (lambda)
setup_pk(d, rand1, rand2) ==
    LET alpha == scalar_from_literal(rand1)
        h == g1mul(scalar_from_literal(rand2), g1)
    IN  [ g_powers |-> [i \in 1 .. (d + 1) |-> g1mul(scalar_pow(alpha, (d - (i - 1))), g1)],
          h_powers |-> [i \in 1 .. (d + 1) |-> g1mul(scalar_pow(alpha, (d - (i - 1))), h)],
          h1 |-> h,
          alpha_g2 |-> g2mul(alpha, g2) ]

\* phi after the loop over the set has visited its elements in the given order
\* a set polynomial built by appending -k for each element in turn
RECURSIVE set_polynomial_appends(_, _)
set_polynomial_appends(order, n) ==
    IF n = 0 THEN << scalar_from_literal(1) >>
    ELSE set_polynomial_appends(order, n - 1)
            \o << scalar_sub(scalar_from_literal(0), order[n]) >>

\* a set polynomial whose product starts from 0 instead of 1
RECURSIVE set_polynomial_from_zero(_, _)
set_polynomial_from_zero(order, n) ==
    IF n = 0 THEN << scalar_from_literal(0) >>
    ELSE multiply(set_polynomial_from_zero(order, n - 1),
                  << scalar_from_literal(1),
                     scalar_sub(scalar_from_literal(0), order[n]) >>)

\* a set polynomial built from the factors [1, k] instead of [1, -k]
RECURSIVE set_polynomial_adds_roots(_, _)
set_polynomial_adds_roots(order, n) ==
    IF n = 0 THEN << scalar_from_literal(1) >>
    ELSE multiply(set_polynomial_adds_roots(order, n - 1),
                  << scalar_from_literal(1), order[n] >>)

RECURSIVE set_polynomial(_, _)
set_polynomial(order, n) ==
    IF n = 0 THEN << scalar_from_literal(1) >>
    ELSE multiply(set_polynomial(order, n - 1),
                  << scalar_from_literal(1),
                     scalar_sub(scalar_from_literal(0), order[n]) >>)

\* the orders in which a HashSet may hand out the elements of s
Orders(s) ==
    { o \in [1 .. Cardinality(s) -> s] : \A i, j \in 1 .. Cardinality(s) : o[i] = o[j] => i = j }

\* a hiding polynomial with one coefficient per element of the set
hiding_length_of_set(ph) == Len(ph) - 1

\* the length of phi_hat: vec![0; phi.len()]
hiding_length(ph) == Len(ph)

\* words taken from the front of the pool
Popped_from_front(pool, n) == [i \in 1 .. n |-> pool[i]]

\* the words of pool popped by n calls of pop, first popped first
Popped(pool, n) == [i \in 1 .. n |-> pool[(Len(pool) - i) + 1]]

\* a pool that loses its first n words instead of its last
Remaining_from_front(pool, n) ==
    IF Len(pool) >= n THEN SubSeq(pool, n + 1, Len(pool)) ELSE << >>

\* a pool that is handed back untouched when it holds fewer than n words
Remaining_or_restored(pool, n) ==
    IF Len(pool) >= n THEN SubSeq(pool, 1, Len(pool) - n) ELSE pool

\* the pool after n calls of pop (emptied when it holds fewer words)
Remaining(pool, n) == IF Len(pool) >= n THEN SubSeq(pool, 1, Len(pool) - n) ELSE << >>

\* the hash functions that agree with orc and are defined at q
OracleAt(orc, q) ==
    IF q \in DOMAIN orc THEN { orc } ELSE { (q :> c) @@ orc : c \in Scalars }

EmptyOracle == [q \in {} |-> 0]

(***************************************************************************)
(* State                                                                   *)
(***************************************************************************)
VARIABLES
    pc,          \* how far the run has got
    op,          \* the operation called last
    err,         \* the panic that ended the run, or "none"
    random,      \* the randomness pool
    random0,     \* the pool the caller handed in
    degree,      \* argument of setup
    pk,          \* Pk returned by setup
    set,         \* the set handed to commitzk and queryzk
    phi,         \* set polynomial returned by commitzk
    phi_hat,     \* hiding polynomial returned by commitzk
    commitment,  \* commitment returned by commitzk
    kj_arg,      \* the element handed to queryzk
    kj,          \* element queried, as returned by queryzk
    witness,     \* witness returned by queryzk
    phi_hat_kj,  \* Option<Scalar> returned by queryzk
    pi_sj,       \* Option<(Z, N1, N2, s1, s2)> returned by queryzk
    vargs,       \* the pi_sj, witness and phi_hat_kj handed to verifyzk
    result,      \* value returned by verifyzk
    sch,         \* scalars and transcript of a direct call of schnorr_proof
    sresult,     \* value returned by a direct call of schnorr_verify
    oracle,      \* the values of the Fiat-Shamir hash seen so far
    call         \* arguments and results of a direct call of a helper

vars == << pc, op, err, random, random0, degree, pk, set, phi, phi_hat, commitment,
           kj_arg, kj, witness, phi_hat_kj, pi_sj, vargs, result, sch, sresult, oracle,
           call >>

\* longest pool handed to the Schnorr tests
MaxSchnorrPool == 4

PoolsUpTo(n) == UNION { [1 .. len -> Words] : len \in 0 .. n }

InitWith(pools) ==
    /\ pc = "start"
    /\ op = "none"
    /\ err = "none"
    /\ random \in pools
    /\ random0 = random
    /\ degree \in 0 .. MaxDegree
    /\ pk = None
    /\ set = {}
    /\ phi = None
    /\ phi_hat = None
    /\ commitment = None
    /\ kj_arg = None
    /\ kj = None
    /\ witness = None
    /\ phi_hat_kj = None
    /\ pi_sj = None
    /\ vargs = None
    /\ call = None
    /\ result = None
    /\ sch = None
    /\ sresult = None
    /\ oracle = EmptyOracle

Init == InitWith(PoolsUpTo(MaxPool))

Panic(name, e) ==
    /\ pc' = "panicked"
    /\ op' = name
    /\ err' = e

(***************************************************************************)
(* setup                                                                   *)
(***************************************************************************)
Setup ==
    /\ pc = "start"
    /\ \/ /\ Len(random) < 2
          /\ Panic("setup", "InsufficientRandomness")
          /\ random' = Remaining(random, 2)
          /\ UNCHANGED pk
       \/ /\ Len(random) >= 2
          /\ pk' = setup_pk(degree, Popped(random, 2)[1], Popped(random, 2)[2])
          /\ random' = Remaining(random, 2)
          /\ pc' = "setup_done"
          /\ op' = "setup"
          /\ UNCHANGED err
    /\ UNCHANGED << random0, degree, set, phi, phi_hat, commitment, kj_arg, kj, witness,
                    phi_hat_kj, pi_sj, vargs, result, sch, sresult, oracle, call >>

(***************************************************************************)
(* commitzk                                                                *)
(***************************************************************************)
\* the commitment without the commitment to the hiding polynomial
commitzk_commitment_unhidden(params, ph, hat) ==
    commit_poly(ph, params.g_powers, g1)

\* the commitment commitzk returns for phi = ph and phi_hat = hat
commitzk_commitment(params, ph, hat) ==
    g1add(commit_poly(ph, params.g_powers, g1),
          commit_poly(hat, params.h_powers, params.h1))

Commitzk ==
    /\ pc = "setup_done"
    /\ \E s \in SUBSET Scalars : \E order \in Orders(s) :
       \E ph \in { set_polynomial(order, Cardinality(s)) } : \E n \in { hiding_length(ph) } :
          /\ set' = s
          /\ random' = Remaining(random, n)
          /\ \/ /\ Len(random) < n
                /\ Panic("commitzk", "InsufficientRandomness")
                /\ UNCHANGED << phi, phi_hat, commitment >>
             \/ /\ Len(random) >= n
                /\ \E build \in Builds :
                   \E hat \in { [i \in 1 .. n |-> scalar_from_literal(Popped(random, n)[i])] } :
                   \E p1 \in { commit_poly_panic(build, ph, pk.g_powers) } :
                   \E p2 \in { commit_poly_panic(build, hat, pk.h_powers) } :
                      /\ p1 # "none" \/ p2 # "none"
                      /\ Panic("commitzk", IF p1 # "none" THEN p1 ELSE p2)
                /\ UNCHANGED << phi, phi_hat, commitment >>
             \/ /\ Len(random) >= n
                /\ \E build \in Builds :
                   \E hat \in { [i \in 1 .. n |-> scalar_from_literal(Popped(random, n)[i])] } :
                      /\ commit_poly_panic(build, ph, pk.g_powers) = "none"
                      /\ commit_poly_panic(build, hat, pk.h_powers) = "none"
                      /\ phi_hat' = hat
                      /\ commitment' = commitzk_commitment(pk, ph, hat)
                /\ phi' = ph
                /\ pc' = "committed"
                /\ op' = "commitzk"
                /\ UNCHANGED err
    /\ UNCHANGED << random0, degree, pk, kj_arg, kj, witness, phi_hat_kj, pi_sj, vargs,
                    result, sch, sresult, oracle, call >>

(***************************************************************************)
(* queryzk                                                                 *)
(***************************************************************************)
\* queryzk called when the run has got to one of pcs
QueryzkFrom(pcs) ==
    /\ pc \in pcs
    /\ \E k \in Scalars :
          \E cw \in { create_witness(phi, phi_hat, k, pk) } :
          LET phi_kj == cw[2]
              r1 == Popped(random, 2)[1]
              r2 == Popped(random, 2)[2]
              proof == g1add(g1mul(phi_kj, g1), g1mul(cw[3], pk.h1))
          IN  /\ kj_arg' = k
              /\ kj' = cw[1]
              /\ \/ /\ k \in set
                    /\ witness' = cw[4]
                    /\ phi_hat_kj' = Some(cw[3])
                    /\ pi_sj' = None
                    /\ pc' = "queried"
                    /\ op' = "queryzk"
                    /\ UNCHANGED << err, random, oracle >>
                 \/ /\ k \notin set
                    /\ Len(random) < 2
                    /\ Panic("queryzk", "InsufficientRandomness")
                    /\ random' = Remaining(random, 2)
                    /\ UNCHANGED << witness, phi_hat_kj, pi_sj, oracle >>
                 \/ /\ k \notin set
                    /\ Len(random) >= 2
                    /\ \E orc \in OracleAt(oracle, schnorr_transcript(pk, phi_kj, cw[3], r1, r2)) :
                          /\ oracle' = orc
                          /\ pi_sj' = Some(<< proof >> \o schnorr_proof(orc, pk, phi_kj, cw[3], r1, r2))
                    /\ witness' = cw[4]
                    /\ phi_hat_kj' = None
                    /\ random' = Remaining(random, 2)
                    /\ pc' = "queried"
                    /\ op' = "queryzk"
                    /\ UNCHANGED err
    /\ UNCHANGED << random0, degree, pk, set, phi, phi_hat, commitment, vargs,
                    result, sch, sresult, call >>

\* the first query after commitzk
Queryzk == QueryzkFrom({ "committed" })

(***************************************************************************)
(* verifyzk                                                                *)
(***************************************************************************)
\* a call verifyzk(pk, commitment, pi, kj, w, phk) when the hash function is
\* known as far as orc0
VerifyCall(orc0, pi, w, phk, name) ==
    /\ \E orc \in (IF verifyzk_hashes(pi, phk)
                   THEN OracleAt(orc0, << pi[1][1], pi[1][2], pi[1][3], pk.h1 >>)
                   ELSE { orc0 }) :
          /\ oracle' = orc
          /\ result' = verifyzk(orc, pk, commitment, pi, kj, w, phk)
    /\ vargs' = [commitment |-> commitment, pi_sj |-> pi, kj |-> kj, witness |-> w,
                 phi_hat_kj |-> phk]
    /\ pc' = "verified"
    /\ op' = name
    /\ UNCHANGED << err, random0, degree, pk, set, phi, phi_hat, commitment,
                    kj_arg, kj, witness, phi_hat_kj, pi_sj, sch, sresult, call >>

\* the verifier is handed what queryzk returned
Verifyzk ==
    /\ pc = "queried"
    /\ VerifyCall(oracle, pi_sj, witness, phi_hat_kj, "verifyzk")
    /\ UNCHANGED random

\* the verifier is handed a commitment to another polynomial as the witness
VerifyForgery ==
    /\ pc = "queried"
    /\ \E w \in Scalars : VerifyCall(oracle, pi_sj, w, phi_hat_kj, "forgery")
    /\ UNCHANGED random

\* the prover builds a non-membership transcript from phi(kj) and phi_hat(kj),
\* whatever queryzk answered, and hands it to the verifier
VerifyFalseClaim ==
    /\ pc = "queried"
    /\ \E phi_kj \in { apply(phi, kj) }, phi_hat_k \in { apply(phi_hat, kj) } :
       LET r1 == Popped(random, 2)[1]
           r2 == Popped(random, 2)[2]
           proof == g1add(g1mul(phi_kj, g1), g1mul(phi_hat_k, pk.h1))
       IN  /\ random' = Remaining(random, 2)
           /\ \/ /\ Len(random) < 2
                 /\ Panic("false_claim", "InsufficientRandomness")
                 /\ UNCHANGED << random0, degree, pk, set, phi, phi_hat, commitment,
                                 kj_arg, kj, witness, phi_hat_kj, pi_sj, vargs, result,
                                 sch, sresult, oracle, call >>
              \/ /\ Len(random) >= 2
                 /\ \E orc \in OracleAt(oracle, schnorr_transcript(pk, phi_kj, phi_hat_k, r1, r2)) :
                       VerifyCall(orc,
                                  Some(<< proof >> \o schnorr_proof(orc, pk, phi_kj, phi_hat_k, r1, r2)),
                                  witness, None, "false_claim")

\* the run of test_kzg_verification: the verifier is handed what queryzk returned
Next == Setup \/ Commitzk \/ Queryzk \/ Verifyzk

Spec == Init /\ [][Next]_vars

\* the run of test_kzg_false_claim: the verifier is handed a transcript for phi(kj)
NextFalseClaim == Setup \/ Commitzk \/ Queryzk \/ VerifyFalseClaim

SpecFalseClaim == Init /\ [][NextFalseClaim]_vars

\* the run of test_kzg_forgery: the verifier is handed another witness
NextForgery == Setup \/ Commitzk \/ Queryzk \/ VerifyForgery

SpecForgery == Init /\ [][NextForgery]_vars

\* the run up to the answer of queryzk
NextQuery == Setup \/ Commitzk \/ Queryzk

SpecQuery == Init /\ [][NextQuery]_vars

(***************************************************************************)
(* setup and commitzk alone                                                *)
(***************************************************************************)
\* longest pool handed in when the run ends with commitzk
MaxCommitPool == 5

InitCommit == InitWith(PoolsUpTo(MaxCommitPool))

NextCommit == Setup \/ Commitzk

SpecCommit == InitCommit /\ [][NextCommit]_vars

(***************************************************************************)
(* queries and verifications in any order, on one pool                     *)
(***************************************************************************)
\* longest pool handed in when queries are repeated
MaxRunPool == 8

\* a query after commitzk, after another query or after a verification
QueryzkAgain == QueryzkFrom({ "committed", "queried", "verified" })

\* pools in which a word differs from its neighbours, so that a word moved or
\* rewritten shows
RunPools ==
    { [i \in 1 .. len |-> (i + c) % P] : len \in 0 .. MaxRunPool, c \in Words }

InitRun == InitWith(RunPools)

NextRun == Setup \/ Commitzk \/ QueryzkAgain \/ Verifyzk

SpecRun == InitRun /\ [][NextRun]_vars

(***************************************************************************)
(* a claim of membership for any element, after commitzk                   *)
(***************************************************************************)
\* the transcripts handed over with a claim of membership
ClaimTranscripts == { None } \cup { Some(<< z, z, z, z, z >>) : z \in Scalars }

\* the prover computes the witness for k as queryzk does, reveals phi_hat(k),
\* and the verifier is handed both, with any transcript
VerifyMembershipClaim ==
    /\ pc = "committed"
    /\ \E k \in Scalars : \E cw \in { create_witness(phi, phi_hat, k, pk) } :
       \E pi \in ClaimTranscripts :
          /\ vargs' = [commitment |-> commitment, pi_sj |-> pi, kj |-> cw[1],
                       witness |-> cw[4], phi_hat_kj |-> Some(cw[3])]
          /\ result' = verifyzk(oracle, pk, commitment, pi, cw[1], cw[4], Some(cw[3]))
    /\ pc' = "verified"
    /\ op' = "membership_claim"
    /\ UNCHANGED << err, random, random0, degree, pk, set, phi, phi_hat, commitment,
                    kj_arg, kj, witness, phi_hat_kj, pi_sj, sch, sresult, oracle, call >>

NextClaim == Setup \/ Commitzk \/ VerifyMembershipClaim

SpecClaim == InitCommit /\ [][NextClaim]_vars

(***************************************************************************)
(* schnorr_proof and schnorr_verify called directly after setup            *)
(***************************************************************************)
\* Z is fixed from (a, b); the prover runs schnorr_proof with aw in place of a
SchnorrProve ==
    /\ pc = "setup_done"
    /\ \E a \in Scalars, b \in Scalars, aw \in Scalars :
          LET r1 == Popped(random, 2)[1]
              r2 == Popped(random, 2)[2]
              z == g1add(g1mul(a, g1), g1mul(b, pk.h1))
          IN  /\ random' = Remaining(random, 2)
              /\ \/ /\ Len(random) < 2
                    /\ Panic("schnorr_proof", "InsufficientRandomness")
                    /\ UNCHANGED << sch, oracle >>
                 \/ /\ Len(random) >= 2
                    /\ \E orc \in OracleAt(oracle, schnorr_transcript(pk, aw, b, r1, r2)) :
                          /\ oracle' = orc
                          /\ sch' = [a |-> a, b |-> b, aw |-> aw, z |-> z,
                                     r1 |-> scalar_from_literal(r1),
                                     r2 |-> scalar_from_literal(r2),
                                     proof |-> schnorr_proof(orc, pk, aw, b, r1, r2)]
                    /\ pc' = "schnorr_proved"
                    /\ op' = "schnorr_proof"
                    /\ UNCHANGED err
    /\ UNCHANGED << random0, degree, pk, set, phi, phi_hat, commitment, kj_arg, kj, witness,
                    phi_hat_kj, pi_sj, vargs, result, sresult, call >>

SchnorrVerify ==
    /\ pc = "schnorr_proved"
    /\ \E orc \in OracleAt(oracle, << sch.z, sch.proof[1], sch.proof[2], pk.h1 >>) :
          /\ oracle' = orc
          /\ sresult' = schnorr_verify(orc, pk, sch.z, sch.proof[1], sch.proof[2],
                                       sch.proof[3], sch.proof[4])
    /\ pc' = "schnorr_verified"
    /\ op' = "schnorr_verify"
    /\ UNCHANGED << err, random, random0, degree, pk, set, phi, phi_hat, commitment,
                    kj_arg, kj, witness, phi_hat_kj, pi_sj, vargs, result, sch, call >>

InitSchnorr == InitWith(PoolsUpTo(MaxSchnorrPool))

NextSchnorr == Setup \/ SchnorrProve \/ SchnorrVerify

SpecSchnorr == InitSchnorr /\ [][NextSchnorr]_vars

(***************************************************************************)
(* verifyzk called on arbitrary values after setup, one check at a time    *)
(***************************************************************************)
\* longest pool handed to setup before the verifier is called on its own
MaxVerifyPool == 2

\* the values a caller can pass as pi_sj and as phi_hat_kj
Transcripts == { None } \cup { Some(t) : t \in [1 .. 5 -> Scalars] }

Evaluations == { None } \cup { Some(v) : v \in Scalars }

\* verifyzk that looks at the transcript before the evaluation
VerifyzkEnter_transcript_first(c, pi, k, w, phk) ==
    /\ vargs' = [commitment |-> c, pi_sj |-> pi, kj |-> k, witness |-> w, phi_hat_kj |-> phk]
    /\ op' = "verifyzk"
    /\ IF pi # None
       THEN pc' = "zero_test" /\ UNCHANGED << result, err >>
       ELSE IF phk # None
       THEN /\ pc' = "verified"
            /\ result' = verifyeval(pk, c, k, scalar_from_literal(0), phk[1], w)
            /\ UNCHANGED err
       ELSE pc' = "verified" /\ result' = FALSE /\ UNCHANGED err

\* verifyzk that unwraps the transcript without testing that there is one
VerifyzkEnter_expects_transcript(c, pi, k, w, phk) ==
    /\ vargs' = [commitment |-> c, pi_sj |-> pi, kj |-> k, witness |-> w, phi_hat_kj |-> phk]
    /\ IF phk # None
       THEN /\ pc' = "verified"
            /\ op' = "verifyzk"
            /\ result' = verifyeval(pk, c, k, scalar_from_literal(0), phk[1], w)
            /\ UNCHANGED err
       ELSE IF pi = None
       THEN Panic("verifyzk", "invalid state") /\ UNCHANGED result
       ELSE pc' = "zero_test" /\ op' = "verifyzk" /\ UNCHANGED << result, err >>

\* entry of verifyzk(pk, c, pi, k, w, phk): the evaluation check when phk is
\* Some, rejection when there is neither evaluation nor transcript
VerifyzkEnter(c, pi, k, w, phk) ==
    /\ vargs' = [commitment |-> c, pi_sj |-> pi, kj |-> k, witness |-> w, phi_hat_kj |-> phk]
    /\ op' = "verifyzk"
    /\ IF phk # None
       THEN /\ pc' = "verified"
            /\ result' = verifyeval(pk, c, k, scalar_from_literal(0), phk[1], w)
            /\ UNCHANGED err
       ELSE IF pi = None
       THEN pc' = "verified" /\ result' = FALSE /\ UNCHANGED err
       ELSE pc' = "zero_test" /\ UNCHANGED << result, err >>

VerifyzkCall ==
    /\ pc = "setup_done"
    /\ \E c \in Scalars, pi \in Transcripts, k \in Scalars, w \in Scalars, phk \in Evaluations :
          VerifyzkEnter(c, pi, k, w, phk)
    /\ UNCHANGED << random, random0, degree, pk, set, phi, phi_hat, commitment, kj_arg, kj,
                    witness, phi_hat_kj, pi_sj, sch, sresult, oracle, call >>

\* the zero test that goes on to the Schnorr check whatever it finds
VerifyZeroTest_falls_through ==
    /\ pc = "zero_test"
    /\ pc' = "schnorr_check"
    /\ UNCHANGED << op, err, random, random0, degree, pk, set, phi, phi_hat, commitment,
                    kj_arg, kj, witness, phi_hat_kj, pi_sj, vargs, result, sch, sresult,
                    oracle, call >>

\* if n1 == s1*g { return false }
VerifyZeroTest ==
    /\ pc = "zero_test"
    /\ IF vargs.pi_sj[1][2] = g1mul(vargs.pi_sj[1][4], g1)
       THEN pc' = "verified" /\ result' = FALSE
       ELSE pc' = "schnorr_check" /\ UNCHANGED result
    /\ UNCHANGED << op, err, random, random0, degree, pk, set, phi, phi_hat, commitment,
                    kj_arg, kj, witness, phi_hat_kj, pi_sj, vargs, sch, sresult, oracle, call >>

\* if !schnorr_verify(pk, proof, n1, n2, s1, s2) { return false }
VerifySchnorrCheck ==
    /\ pc = "schnorr_check"
    /\ \E orc \in OracleAt(oracle, << vargs.pi_sj[1][1], vargs.pi_sj[1][2],
                                      vargs.pi_sj[1][3], pk.h1 >>) :
          /\ oracle' = orc
          /\ IF ~ schnorr_verify(orc, pk, vargs.pi_sj[1][1], vargs.pi_sj[1][2],
                                 vargs.pi_sj[1][3], vargs.pi_sj[1][4], vargs.pi_sj[1][5])
             THEN pc' = "verified" /\ result' = FALSE
             ELSE pc' = "pairing_check" /\ UNCHANGED result
    /\ UNCHANGED << op, err, random, random0, degree, pk, set, phi, phi_hat, commitment,
                    kj_arg, kj, witness, phi_hat_kj, pi_sj, vargs, sch, sresult, call >>

\* left == right
VerifyPairingCheck ==
    /\ pc = "pairing_check"
    /\ LET left == pairing(g1sub(vargs.commitment, vargs.pi_sj[1][1]), g2)
           right == pairing(vargs.witness, g2sub(pk.alpha_g2, g2mul(vargs.kj, g2)))
       IN  result' = (left = right)
    /\ pc' = "verified"
    /\ UNCHANGED << op, err, random, random0, degree, pk, set, phi, phi_hat, commitment,
                    kj_arg, kj, witness, phi_hat_kj, pi_sj, vargs, sch, sresult, oracle, call >>

\* verifyzk reads h1 and alpha_g2 of Pk and neither of the power vectors, so
\* the parameters of degree 0 stand for all
InitVerify == InitWith(PoolsUpTo(MaxVerifyPool)) /\ degree = 0

NextVerify ==
    Setup \/ VerifyzkCall \/ VerifyZeroTest \/ VerifySchnorrCheck \/ VerifyPairingCheck

SpecVerify == InitVerify /\ [][NextVerify]_vars

(***************************************************************************)
(* Direct calls of the helpers, as the tests of both files make them       *)
(***************************************************************************)
\* both back-ends on one literal and one exponent (test_trait_scalar_from_literal,
\* test_trait_scalar_power)
ScalarPowCall ==
    /\ pc = "start"
    /\ \E base \in Literals, exp \in Literals :
       \E specscalar \in { scalar_from_literal(base) } :
       \E fastscalar \in { FastCurve_scalar_from_literal(base) } :
          call' = [name |-> "scalar_pow", base |-> base, exp |-> exp,
                   specscalar |-> specscalar, fastscalar |-> fastscalar,
                   limbs |-> FastCurve_exp(exp),
                   specpow |-> scalar_pow(specscalar, exp),
                   fastpow |-> FastCurve_scalar_pow(fastscalar, exp)]
    /\ pc' = "called"
    /\ op' = "scalar_pow"
    /\ UNCHANGED << err, random, random0, degree, pk, set, phi, phi_hat, commitment, kj_arg,
                    kj, witness, phi_hat_kj, pi_sj, vargs, result, sch, sresult, oracle >>

\* longest polynomial handed to create_psi
MaxPsiLen == 3

Polynomials == UNION { [1 .. len -> Scalars] : len \in 1 .. MaxPsiLen }

\* create_psi on any polynomial, any claimed evaluation and any point
CreatePsiCall ==
    /\ pc = "start"
    /\ \E f \in Polynomials, f_x0 \in Scalars, x0 \in Scalars :
          call' = [name |-> "create_psi", f |-> f, f_x0 |-> f_x0, x0 |-> x0,
                   psi |-> create_psi(f, f_x0, x0)]
    /\ pc' = "called"
    /\ op' = "create_psi"
    /\ UNCHANGED << err, random, random0, degree, pk, set, phi, phi_hat, commitment, kj_arg,
                    kj, witness, phi_hat_kj, pi_sj, vargs, result, sch, sresult, oracle >>

\* SpecCurve::fiat_shamir_hash on five points, and the copy of lib.rs on the four
\* of them its signature takes; Sha256 is a function of the bytes it is handed
HashCall ==
    /\ pc = "start"
    /\ \E z1 \in Scalars, z2 \in Scalars, n1 \in Scalars, n2 \in Scalars, h \in Scalars :
       \E bytes \in { SpecCurve_fiat_shamir_bytes(z1, z2, n1, n2, h) } :
       \E verifiable \in { fiat_shamir_bytes_verifiable(z1, n1, n2, h) } :
       \E orc1 \in OracleAt(oracle, bytes) : \E orc \in OracleAt(orc1, verifiable) :
          /\ oracle' = orc
          /\ call' = [name |-> "fiat_shamir_hash", z1 |-> z1, z2 |-> z2, n1 |-> n1,
                      n2 |-> n2, h |-> h, bytes |-> bytes, challenge |-> orc[bytes],
                      bytes_verifiable |-> verifiable,
                      challenge_verifiable |-> orc[verifiable]]
    /\ pc' = "called"
    /\ op' = "fiat_shamir_hash"
    /\ UNCHANGED << err, random, random0, degree, pk, set, phi, phi_hat, commitment, kj_arg,
                    kj, witness, phi_hat_kj, pi_sj, vargs, result, sch, sresult >>

InitHelpers == InitWith({ << >> }) /\ degree = 0

NextHelpers == ScalarPowCall \/ CreatePsiCall \/ HashCall

SpecHelpers == InitHelpers /\ [][NextHelpers]_vars

(***************************************************************************)
(* Properties                                                              *)
(***************************************************************************)
\* the secrets of setup, read off the pool the caller handed in
Alpha == scalar_from_literal(random0[Len(random0)])

Lambda == scalar_from_literal(random0[Len(random0) - 1])

\* the challenge the hash gives for the transcript pi = Some((Z, N1, N2, s1, s2))
ChallengeOf(pi) == oracle[<< pi[1][1], pi[1][2], pi[1][3], pk.h1 >>]

HonestVerified == pc = "verified" /\ op = "verifyzk"

\* C1: completeness for members.  After setup, commitzk and queryzk on an
\* element k of the set, queryzk has returned (k, W, Some(phi_hat(k)), None)
\* and verifyzk on exactly these values returns true.
C1_CompletenessMembership ==
    /\ (pc = "queried" /\ kj \in set) =>
          (phi_hat_kj = Some(apply(phi_hat, kj)) /\ pi_sj = None)
    /\ (HonestVerified /\ kj \in set) =>
          (vargs.phi_hat_kj # None /\ vargs.pi_sj = None /\ result = TRUE)

C1_Witness ==
    HonestVerified /\ kj \in set /\ Cardinality(set) = 2 /\ result = TRUE

C3_FalseNonMembershipRejected ==
    (pc = "verified" /\ op = "false_claim" /\ kj \in set) =>
        /\ result = FALSE
        /\ vargs.phi_hat_kj = None
        /\ vargs.pi_sj[1][2] = g1mul(vargs.pi_sj[1][4], g1)

C3_Witness ==
    pc = "verified" /\ op = "false_claim" /\ kj \in set /\ result = FALSE

Forged == pc = "verified" /\ op = "forgery" /\ vargs.witness # witness

\* C4 as claimed: with the witness replaced by any other point verifyzk
\* returns false.
C4_AsClaimed ==
    Forged => result = FALSE

\* C4 amended: with the witness replaced by any other point verifyzk returns
\* false whenever k differs from the setup secret alpha; when k = alpha the
\* pairing check does not depend on the witness and verifyzk returns what it
\* returns for the honest witness.
C4_ForgedWitness ==
    Forged =>
        IF pk.alpha_g2 # g2mul(kj, g2)
        THEN result = FALSE
        ELSE result = verifyzk(oracle, pk, commitment, pi_sj, kj, witness, phi_hat_kj)

C4_Witness ==
    Forged /\ pk.alpha_g2 # g2mul(kj, g2) /\ result = FALSE /\ set # {}

SchnorrProved == pc \in { "schnorr_proved", "schnorr_verified" }

\* C5: Schnorr completeness.  The transcript of schnorr_proof(pk, a, b, pool)
\* passes schnorr_verify for Z = a*g + b*h.
C5_SchnorrCompleteness ==
    (pc = "schnorr_verified" /\ sch.aw = sch.a) => sresult = TRUE

C5_Witness ==
    pc = "schnorr_verified" /\ sch.aw = sch.a /\ sch.a # 0 /\ sch.b # 0 /\ sresult = TRUE

\* the challenge schnorr_proof computed, over Z' = aw*g + b*h
ProverChallenge ==
    oracle[<< g1add(g1mul(sch.aw, g1), g1mul(sch.b, pk.h1)), sch.proof[1], sch.proof[2], pk.h1 >>]

\* the challenge schnorr_verify computed, over Z = a*g + b*h
VerifierChallenge == oracle[<< sch.z, sch.proof[1], sch.proof[2], pk.h1 >>]

C7_ZeroDetector ==
    (SchnorrProved /\ sch.a = 0 /\ sch.aw = 0) =>
        /\ sch.proof[1] = g1mul(sch.proof[3], g1)
        /\ pc = "schnorr_verified" => sresult = TRUE
        /\ \A c \in Scalars, k \in Scalars, w \in Scalars :
              verifyzk(oracle, pk, c, Some(<< sch.z >> \o sch.proof), k, w, None) = FALSE

C7_Witness ==
    pc = "schnorr_verified" /\ sch.a = 0 /\ sch.aw = 0 /\ sch.b # 0 /\ sch.r1 # 0 /\ sresult = TRUE

SetupReturned == pc # "start" /\ ~ (pc = "panicked" /\ op = "setup")

\* C9: setup returns g_powers and h_powers of degree+1 entries each, ending in
\* g and h, every entry being alpha times the next one (so entry i is
\* alpha^(degree-i) times the last), with h1 = h = lambda*g and
\* alpha_g2 = alpha*g2.
C9_SetupPowers ==
    SetupReturned =>
        /\ Len(pk.g_powers) = degree + 1
        /\ Len(pk.h_powers) = degree + 1
        /\ pk.g_powers[degree + 1] = g1
        /\ pk.h_powers[degree + 1] = pk.h1
        /\ pk.h1 = g1mul(Lambda, g1)
        /\ pk.alpha_g2 = g2mul(Alpha, g2)
        /\ \A i \in 1 .. degree :
              /\ pk.g_powers[i] = g1mul(Alpha, pk.g_powers[i + 1])
              /\ pk.h_powers[i] = g1mul(Alpha, pk.h_powers[i + 1])

C9_Witness ==
    pc = "setup_done" /\ degree = 2 /\ Alpha = 2 /\ Lambda = 2

\* C10: setup pops exactly two words, the last word of the pool becoming
\* alpha and the one before it lambda, and leaves the others as they were;
\* it panics if and only if the pool holds fewer than two words.
C10_SetupPops ==
    /\ pc = "setup_done" =>
          /\ Len(random0) >= 2
          /\ random = SubSeq(random0, 1, Len(random0) - 2)
          /\ pk.alpha_g2 = g2mul(scalar_from_literal(random0[Len(random0)]), g2)
          /\ pk.h1 = g1mul(scalar_from_literal(random0[Len(random0) - 1]), g1)
    /\ (pc = "panicked" /\ op = "setup") =>
          (Len(random0) < 2 /\ err = "InsufficientRandomness")
    /\ (pc # "start" /\ Len(random0) < 2) => (pc = "panicked" /\ op = "setup")

C10_Witness ==
    pc = "setup_done" /\ Len(random0) = 4 /\ random0[4] # random0[3] /\ Len(random) = 2

\* the panicking half of C10: a pool of one word
C10_WitnessPanic ==
    pc = "panicked" /\ op = "setup" /\ Len(random0) = 1

\* commitzk has been called and nothing has been called since
CommitzkCalled == op = "commitzk"

\* the pool setup left for commitzk
PoolAtCommit == SubSeq(random0, 1, Len(random0) - 2)

C11_WitnessPanic ==
    /\ pc = "panicked" /\ op = "commitzk" /\ err = "InsufficientRandomness"
    /\ Len(PoolAtCommit) = Cardinality(set)
    /\ set # {}

\* the sum over i of poly[i]*basis[basis.len - poly.len + i], on discrete logs
RECURSIVE BasisSum(_, _, _)
BasisSum(poly, basis, i) ==
    IF i > Len(poly) THEN 0
    ELSE poly[i] * basis[(Len(basis) - Len(poly)) + i] + BasisSum(poly, basis, i + 1)

\* C12: commitzk returns for every set of at most degree elements (given
\* the randomness), and the commitment it returns is
\* commit_poly(phi, g_powers) + commit_poly(phi_hat, h_powers), where
\* commit_poly(P, basis) is the sum of P[i]*basis[basis.len - P.len + i];
\* with the bases of setup this is phi(alpha)*g + phi_hat(alpha)*h, and the
\* generator handed to commit_poly has no part in the sum.
C12_Commitment ==
    /\ (CommitzkCalled /\ Cardinality(set) <= degree
           /\ Len(PoolAtCommit) >= Cardinality(set) + 1) => pc = "committed"
    /\ pc = "committed" =>
          /\ commitment = g1add(commit_poly(phi, pk.g_powers, g1),
                                commit_poly(phi_hat, pk.h_powers, pk.h1))
          /\ commit_poly(phi, pk.g_powers, g1) = BasisSum(phi, pk.g_powers, 1) % P
          /\ commit_poly(phi_hat, pk.h_powers, pk.h1) = BasisSum(phi_hat, pk.h_powers, 1) % P
          /\ commitment = g1add(g1mul(apply(phi, Alpha), g1),
                                g1mul(apply(phi_hat, Alpha), pk.h1))
          /\ \A gen \in Scalars :
                /\ commit_poly(phi, pk.g_powers, gen) = commit_poly(phi, pk.g_powers, g1)
                /\ commit_poly(phi_hat, pk.h_powers, gen) = commit_poly(phi_hat, pk.h_powers, pk.h1)

C12_Witness ==
    /\ pc = "committed"
    /\ Cardinality(set) = 1
    /\ degree = 2
    /\ Alpha = 2
    /\ Lambda # 0
    /\ apply(phi, Alpha) # 0
    /\ apply(phi_hat, Alpha) # 0

\* C13: queryzk returns the k it was handed, and exactly one of its two
\* optional outputs: Some(phi_hat(k)) and no transcript if and only if k is
\* in the set, no evaluation and a transcript (Z, N1, N2, s1, s2) with
\* Z = phi(k)*g + phi_hat(k)*h if and only if k is not in the set.
C13_QueryBranches ==
    pc = "queried" =>
        /\ kj = kj_arg
        /\ (phi_hat_kj = None) # (pi_sj = None)
        /\ (kj_arg \in set) <=>
              (phi_hat_kj = Some(apply(phi_hat, kj_arg)) /\ pi_sj = None)
        /\ (kj_arg \notin set) <=>
              /\ phi_hat_kj = None
              /\ pi_sj # None
              /\ Len(pi_sj[1]) = 5
              /\ pi_sj[1][1] = g1add(g1mul(apply(phi, kj_arg), g1),
                                     g1mul(apply(phi_hat, kj_arg), pk.h1))

C13_Witness ==
    /\ pc = "queried"
    /\ kj_arg \notin set
    /\ Cardinality(set) = 1
    /\ pi_sj # None
    /\ pi_sj[1][1] # 0

\* the membership half of C13
C13_WitnessMember ==
    pc = "queried" /\ kj_arg \in set /\ Cardinality(set) = 2 /\ phi_hat_kj = Some(1)

\* the number of words in the pool handed to queryzk
PoolAtQuery == (Len(random0) - 2) - Len(phi_hat)

\* C14: queryzk panics for lack of randomness whenever the pool handed to it
\* holds fewer than 2 words.
C14_AsClaimed ==
    (op = "queryzk" /\ PoolAtQuery < 2) =>
        (pc = "panicked" /\ err = "InsufficientRandomness")

\* verifyzk has been called on values of the caller's choice
VerifyzkCalled == op = "verifyzk" /\ vargs # None

\* C15: when phi_hat_kj = Some(v), verifyzk returns the evaluation check
\* e(W, alpha*g2 - k*g2) == e(C - v*h, g2), with phi(k) taken as 0, whatever
\* pi_sj is: a transcript passed with Some(v) is not looked at, none of the
\* non-membership checks runs and nothing is hashed.
C15_EvaluationOnly ==
    (VerifyzkCalled /\ vargs.phi_hat_kj # None) =>
        /\ pc = "verified"
        /\ result = (pairing(vargs.witness, g2sub(pk.alpha_g2, g2mul(vargs.kj, g2)))
                       = pairing(g1sub(vargs.commitment, g1mul(vargs.phi_hat_kj[1], pk.h1)), g2))
        /\ oracle = EmptyOracle

C15_Witness ==
    /\ VerifyzkCalled
    /\ pc = "verified"
    /\ vargs.phi_hat_kj = Some(1)
    /\ vargs.pi_sj = Some(<< 1, 1, 1, 1, 1 >>)
    /\ vargs.witness # 0
    /\ pk.h1 # 0
    /\ result = TRUE

\* C16: verifyzk never raises.  For every combination of arguments, the one
\* with neither evaluation nor transcript included, the call goes on until it
\* returns a boolean, which is false when both are absent; it takes nothing
\* from the randomness pool, and what it returns is a function of its
\* arguments (and of the hash) alone.
C16_VerifierTotal ==
    VerifyzkCalled =>
        /\ pc \in { "zero_test", "schnorr_check", "pairing_check", "verified" }
        /\ err = "none"
        /\ random = PoolAtCommit
        /\ pc # "verified" => ENABLED (VerifyZeroTest \/ VerifySchnorrCheck \/ VerifyPairingCheck)
        /\ pc = "verified" =>
              /\ result \in BOOLEAN
              /\ result = verifyzk(oracle, pk, vargs.commitment, vargs.pi_sj, vargs.kj,
                                   vargs.witness, vargs.phi_hat_kj)
              /\ (vargs.phi_hat_kj = None /\ vargs.pi_sj = None) => result = FALSE

C16_Witness ==
    /\ VerifyzkCalled
    /\ pc = "verified"
    /\ vargs.phi_hat_kj = None
    /\ vargs.pi_sj = None
    /\ result = FALSE

\* the three checks of the non-membership path, on the arguments of the call
ZeroTestPasses == vargs.pi_sj[1][2] # g1mul(vargs.pi_sj[1][4], g1)

SchnorrCheckPasses ==
    g1add(g1add(g1mul(vargs.pi_sj[1][4], g1), g1mul(vargs.pi_sj[1][5], pk.h1)),
          g1mul(ChallengeOf(vargs.pi_sj), vargs.pi_sj[1][1]))
      = g1add(vargs.pi_sj[1][2], vargs.pi_sj[1][3])

PairingCheckPasses ==
    pairing(g1sub(vargs.commitment, vargs.pi_sj[1][1]), g2)
      = pairing(vargs.witness, g2sub(pk.alpha_g2, g2mul(vargs.kj, g2)))

NonMembershipCall == VerifyzkCalled /\ vargs.phi_hat_kj = None /\ vargs.pi_sj # None

\* what C17 says of every state of a non-membership call
C17_Accepts ==
    NonMembershipCall =>
        /\ pc \in { "zero_test", "schnorr_check", "pairing_check", "verified" }
        /\ pc = "schnorr_check" => ZeroTestPasses
        /\ pc = "pairing_check" => (ZeroTestPasses /\ SchnorrCheckPasses)
        /\ pc = "verified" =>
              /\ result = (ZeroTestPasses /\ SchnorrCheckPasses /\ PairingCheckPasses)
              /\ ~ ZeroTestPasses => oracle = EmptyOracle

\* what C17 says of every step of a non-membership call
C17_Step ==
    /\ (pc = "setup_done" /\ NonMembershipCall') => pc' = "zero_test"
    /\ pc = "zero_test" =>
          IF ZeroTestPasses
          THEN pc' = "schnorr_check"
          ELSE pc' = "verified" /\ result' = FALSE /\ oracle' = oracle
    /\ pc = "schnorr_check" =>
          IF SchnorrCheckPasses'
          THEN pc' = "pairing_check"
          ELSE pc' = "verified" /\ result' = FALSE
    /\ pc = "pairing_check" => (pc' = "verified" /\ result' = PairingCheckPasses)

\* C17: with phi_hat_kj = None and a transcript, verifyzk accepts if and only
\* if N1 # s1*g, the Schnorr check s1*g + s2*h + c*Z == N1 + N2 and the
\* pairing check e(C - Z, g2) == e(W, alpha*g2 - k*g2) all hold; the checks
\* run in that order, and the first one that fails ends the call with false
\* before a later one is evaluated.
C17_NonMembershipChecks == [] C17_Accepts /\ [][C17_Step]_vars

C17_Witness ==
    /\ NonMembershipCall
    /\ pc = "verified"
    /\ result = TRUE
    /\ vargs.witness # 0
    /\ pk.h1 # 0

\* a call that the Schnorr check ends
C17_WitnessSchnorrFails ==
    /\ NonMembershipCall
    /\ pc = "verified"
    /\ ZeroTestPasses
    /\ ~ SchnorrCheckPasses
    /\ PairingCheckPasses
    /\ result = FALSE

\* the pool commitzk left for queryzk
PoolAfterCommit == SubSeq(PoolAtCommit, 1, Len(PoolAtCommit) - Len(phi_hat))

\* what queryzk returns for kj_arg, from the outputs of setup and commitzk
QueryOutputs ==
    LET cw == create_witness(phi, phi_hat, kj_arg, pk)
        r1 == PoolAfterCommit[Len(PoolAfterCommit)]
        r2 == PoolAfterCommit[Len(PoolAfterCommit) - 1]
        z == g1add(g1mul(cw[2], g1), g1mul(cw[3], pk.h1))
    IN  IF kj_arg \in set
        THEN << cw[1], cw[4], Some(cw[3]), None >>
        ELSE << cw[1], cw[4], None,
                Some(<< z >> \o schnorr_proof(oracle, pk, cw[2], cw[3], r1, r2)) >>

\* C18: determinism.  The outputs of setup, commitzk, queryzk and verifyzk are
\* fixed by the degree, the set, the queried k and the pool first handed in
\* (the hash being a function): pk by the last two words of the pool, phi by
\* the set in whatever order its elements are enumerated, phi_hat by the next
\* |S|+1 words, C by these, the answer of queryzk by these, k and the next
\* two words, and the verdict of verifyzk by that answer.
C18_Deterministic ==
    /\ pc = "setup_done" =>
          pk = setup_pk(degree, random0[Len(random0)], random0[Len(random0) - 1])
    /\ pc = "committed" =>
          /\ phi_hat = [i \in 1 .. (Cardinality(set) + 1) |->
                           scalar_from_literal(PoolAtCommit[(Len(PoolAtCommit) - i) + 1])]
          /\ \A o \in Orders(set) : \A ph \in { set_polynomial(o, Cardinality(set)) } :
                /\ phi = ph
                /\ commitment = commitzk_commitment(pk, ph, phi_hat)
    /\ pc = "queried" => << kj, witness, phi_hat_kj, pi_sj >> = QueryOutputs
    /\ HonestVerified =>
          result = verifyzk(oracle, pk, commitment, pi_sj, kj, witness, phi_hat_kj)

C18_Witness ==
    /\ HonestVerified
    /\ set = { 1, 2 }
    /\ phi = << 1, 0, 2 >>
    /\ result = TRUE

\* the set polynomial of s (C18: the same for every order)
PolynomialOf(s) == set_polynomial(CHOOSE o \in Orders(s) : TRUE, Cardinality(s))

\* how many of the hiding polynomials give each commitment value to the set s
Histogram(s) ==
    LET ph == PolynomialOf(s)
        commitments == [hat \in [1 .. Len(ph) -> Scalars] |-> commitzk_commitment(pk, ph, hat)]
    IN  [c \in Scalars |-> Cardinality({ hat \in DOMAIN commitments : commitments[hat] = c })]

\* the sets commitzk could have been handed in place of set
SetsOfSameSize == { s \in SUBSET Scalars : Cardinality(s) = Cardinality(set) }

C20_AsClaimed ==
    (set = {} /\ op \in { "commitzk", "queryzk" }) => pc = "panicked"

\* C20 amended: an empty set is not an error.  commitzk called with an empty
\* set returns phi = [1], a phi_hat of one coefficient and
\* C = g + phi_hat[0]*h, and fails only when the pool is empty; queryzk
\* called with an empty set answers every k with a non-membership transcript
\* whose Z is C, and fails only when the pool holds fewer than two words.
C20_EmptySetAccepted ==
    /\ (set = {} /\ op = "commitzk") =>
          IF Len(PoolAtCommit) >= 1
          THEN /\ pc = "committed"
               /\ phi = << scalar_from_literal(1) >>
               /\ Len(phi_hat) = 1
               /\ commitment = g1add(g1, g1mul(phi_hat[1], pk.h1))
          ELSE pc = "panicked" /\ err = "InsufficientRandomness"
    /\ (set = {} /\ op = "queryzk") =>
          IF PoolAtQuery >= 2
          THEN /\ pc = "queried"
               /\ phi_hat_kj = None
               /\ pi_sj # None
               /\ pi_sj[1][1] = commitment
          ELSE pc = "panicked" /\ err = "InsufficientRandomness"

C20_Witness ==
    /\ pc = "queried"
    /\ set = {}
    /\ degree = 0
    /\ pi_sj # None
    /\ commitment # 0

\* C21: a polynomial longer than the basis is fatal.  Given the randomness,
\* commitzk fails if and only if |S| > degree, by the panic of commit_poly
\* (on the subtraction with overflow checks, on the first index without
\* them); it then returns nothing, and every commitment it does return was
\* computed from indices inside the basis.
C21_BasisTooShort ==
    /\ (CommitzkCalled /\ Len(PoolAtCommit) >= Cardinality(set) + 1) =>
          /\ (pc = "panicked") <=> (Cardinality(set) > degree)
          /\ pc = "panicked" =>
                /\ err \in { "Overflow", "OutOfBounds" }
                /\ phi = None /\ phi_hat = None /\ commitment = None
    /\ (CommitzkCalled /\ Cardinality(set) > degree) => pc = "panicked"
    /\ pc = "committed" =>
          /\ Len(phi) <= Len(pk.g_powers)
          /\ Len(phi_hat) <= Len(pk.h_powers)
          /\ \A i \in 1 .. Len(phi) :
                (Len(pk.g_powers) - Len(phi)) + i \in DOMAIN pk.g_powers

C21_Witness ==
    /\ pc = "panicked"
    /\ op = "commitzk"
    /\ err = "OutOfBounds"
    /\ degree = 1
    /\ Cardinality(set) = 2

\* x^e in the scalar field, by e multiplications
RECURSIVE PowerOf(_, _)
PowerOf(x, e) == IF e = 0 THEN 1 % P ELSE ((x % P) * PowerOf(x, e - 1)) % P

ScalarPowCalled == pc = "called" /\ call # None /\ call.name = "scalar_pow"

RECURSIVE ProductOfRoots(_, _)
ProductOfRoots(s, x) ==
    IF s = {} THEN 1 % P
    ELSE LET k == CHOOSE e \in s : TRUE
         IN  (((x + P) - k) * ProductOfRoots(s \ { k }, x)) % P

\* C23: the phi commitzk returns is the product of (x - k) over the set: it
\* has |S| + 1 coefficients, its leading coefficient is 1, apply(phi, x) is
\* the product for every x, and so apply(phi, x) = 0 exactly for x in S.
C23_SetPolynomial ==
    pc = "committed" =>
        /\ Len(phi) = Cardinality(set) + 1
        /\ phi[1] = 1
        /\ \A x \in Scalars :
              /\ apply(phi, x) = ProductOfRoots(set, x)
              /\ (apply(phi, x) = 0) <=> (x \in set)

C23_Witness ==
    /\ pc = "committed"
    /\ set = { 1, 2 }
    /\ phi = << 1, 0, 2 >>
    /\ apply(phi, 0) # 0

CreatePsiCalled == pc = "called" /\ call # None /\ call.name = "create_psi"

\* the value of a polynomial, coefficients high degree first, by Horner's rule
RECURSIVE ValueOf(_, _, _)
ValueOf(f, x, n) == IF n = 0 THEN 0 ELSE ((ValueOf(f, x, n - 1) * x) + f[n]) % P

\* C24: create_psi is synthetic division.  For F of length n >= 1 and every
\* x0, create_psi(F, apply(F, x0), x0) returns Q of length n - 1 with
\* Q[0] = F[0] and Q[i] = Q[i-1] * x0 + F[i], so that
\* apply(Q, x) * (x - x0) = apply(F, x) - apply(F, x0) for every x; the last
\* term of the division is dropped whatever the claimed evaluation was.
C24_SyntheticDivision ==
    CreatePsiCalled =>
        /\ Len(call.psi) = Len(call.f) - 1
        /\ call.f_x0 = apply(call.f, call.x0) =>
              /\ \A i \in 1 .. Len(call.psi) :
                    call.psi[i] = IF i = 1 THEN call.f[1]
                                  ELSE ((call.psi[i - 1] * call.x0) + call.f[i]) % P
              /\ \A x \in Scalars :
                    /\ apply(call.f, x) = ValueOf(call.f, x, Len(call.f))
                    /\ (apply(call.psi, x) * ((x + P) - call.x0)) % P =
                          ((apply(call.f, x) + P) - apply(call.f, call.x0)) % P

C24_Witness ==
    /\ CreatePsiCalled
    /\ call.f = << 1, 2, 2 >>
    /\ call.x0 = 2
    /\ call.f_x0 = apply(call.f, call.x0)
    /\ call.psi = << 1, 1 >>

\* C30: the quotient create_psi returns does not depend on the evaluation it
\* is handed.  For every F of length >= 1, every x0 and every v and v',
\* create_psi(F, v, x0) = create_psi(F, v', x0).
C30_QuotientIgnoresEvaluation ==
    CreatePsiCalled =>
        \A v \in Scalars : create_psi(call.f, v, call.x0) = call.psi

C30_Witness ==
    /\ CreatePsiCalled
    /\ Len(call.f) = 3
    /\ call.f_x0 # apply(call.f, call.x0)
    /\ call.psi = create_psi(call.f, apply(call.f, call.x0), call.x0)
    /\ call.psi # << 0, 0 >>

HashCalled == pc = "called" /\ call # None /\ call.name = "fiat_shamir_hash"

\* big-endian x, big-endian y, then one byte 1 for the identity and 0 otherwise
EncodingOf(p) ==
    LET c == G1Coordinates(p)
    IN  << c[1] \div 256, c[1] % 256, c[2] \div 256, c[2] % 256, IF c[3] THEN 1 ELSE 0 >>

\* C25: the spec back-end's fiat_shamir_hash hashes exactly five point
\* encodings, in the order g1, h, z, n1, n2, each as big-endian x, big-endian
\* y and one flag byte, so that its challenge is a function of (z, n1, n2, h)
\* alone and equals the one the copy in lib.rs computes from these four points.
C25_AsClaimed ==
    HashCalled =>
        /\ call.bytes = EncodingOf(g1) \o EncodingOf(call.h) \o EncodingOf(call.z1)
                            \o EncodingOf(call.n1) \o EncodingOf(call.n2)
        /\ call.bytes_verifiable = call.bytes
        /\ call.challenge = call.challenge_verifiable

\* C26: queryzk computes the witness before it branches, the same way for
\* members and non-members: W = commit_poly(psi, g_powers) +
\* commit_poly(psi_hat, h_powers) with psi = create_psi(phi, phi(k), k) and
\* psi_hat likewise, so that (alpha - k) * W = C - phi(k)*g - phi_hat(k)*h for
\* the honest commitment C and every k.
C26_WitnessRelation ==
    pc = "queried" =>
        \E phi_k \in { apply(phi, kj) } : \E phi_hat_k \in { apply(phi_hat, kj) } :
            /\ witness = g1add(commit_poly(create_psi(phi, phi_k, kj), pk.g_powers, g1),
                               commit_poly(create_psi(phi_hat, phi_hat_k, kj), pk.h_powers, pk.h1))
            /\ g1mul(scalar_sub(Alpha, kj), witness) =
                  g1sub(g1sub(commitment, g1mul(phi_k, g1)), g1mul(phi_hat_k, pk.h1))
            /\ (kj \in set) <=> (pi_sj = None)

C26_Witness ==
    /\ pc = "queried"
    /\ kj \notin set
    /\ pi_sj # None
    /\ Alpha # kj
    /\ witness # 0
    /\ commit_poly(create_psi(phi_hat, apply(phi_hat, kj), kj), pk.h_powers, pk.h1) # 0

C26_WitnessMember ==
    /\ pc = "queried"
    /\ kj \in set
    /\ Alpha # kj
    /\ witness # 0

\* C27: running out of randomness is not atomic.  Whenever setup, commitzk or
\* queryzk (in schnorr_proof) fails because the pool ran out, the words popped
\* before the failing pop are not put back: the pool is left empty.
C27_PoolEmptiedOnFailure ==
    (pc = "panicked" /\ err = "InsufficientRandomness") =>
        /\ random = << >>
        /\ op \in { "setup", "commitzk", "queryzk" }
        /\ op = "setup" => Len(random0) < 2
        /\ op = "commitzk" => Len(PoolAtCommit) < Cardinality(set) + 1
        /\ op = "queryzk" => (kj_arg \notin set /\ PoolAtQuery < 2)

C27_Witness ==
    /\ pc = "panicked" /\ err = "InsufficientRandomness"
    /\ op = "commitzk"
    /\ Cardinality(set) = 2
    /\ Len(PoolAtCommit) = 2
    /\ random = << >>

C27_WitnessSetup ==
    pc = "panicked" /\ op = "setup" /\ Len(random0) = 1 /\ random = << >>

C27_WitnessQueryzk ==
    pc = "panicked" /\ op = "queryzk" /\ PoolAtQuery = 1 /\ random = << >>

IsPrefix(p, q) == Len(p) <= Len(q) /\ p = SubSeq(q, 1, Len(p))

\* what is left of the initial pool up to the first query
C28_Accounted ==
    /\ IsPrefix(random, random0)
    /\ pc = "setup_done" => Len(random) = Len(random0) - 2
    /\ pc = "committed" => Len(random) = (Len(random0) - 2) - (Cardinality(set) + 1)
    /\ pc \in { "queried", "verified" } =>
          \E q \in 0 .. MaxRunPool :
             Len(random) = ((Len(random0) - 2) - (Cardinality(set) + 1)) - (2 * q)

\* what one call that returns removes from the pool
C28_Step ==
    /\ IsPrefix(random', random)
    /\ pc' = "setup_done" => Len(random') = Len(random) - 2
    /\ pc' = "committed" => Len(random') = Len(random) - (Cardinality(set') + 1)
    /\ pc' = "queried" =>
          Len(random') = Len(random) - (IF kj_arg' \in set THEN 0 ELSE 2)
    /\ pc' = "verified" => random' = random

\* C28: pool accounting.  Over setup, commitzk and then queryzk and verifyzk
\* in any order on one pool, the pool always is a prefix of the pool handed
\* in; setup removes 2 words, commitzk |S| + 1, queryzk 2 for a non-member
\* and none for a member, verifyzk none, which leaves L - 2 - (|S| + 1) - 2q
\* words after q queries for non-members.
C28_PoolAccounting == [] C28_Accounted /\ [][C28_Step]_vars

C28_Witness ==
    /\ pc = "verified"
    /\ Cardinality(set) = 1
    /\ Len(random0) = 8
    /\ random = << >>
    /\ kj \in set

MembershipClaimed == pc = "verified" /\ op = "membership_claim"

\* C29: a claim of membership for a non-member does not verify with the honest
\* witness.  For the honest pk, C, phi and phi_hat and every k outside the set,
\* verifyzk(pk, C, pi, k, W, Some(phi_hat(k))), with W the witness computed
\* for k as queryzk computes it, returns false, whatever pi is.
C29_FalseMembershipRejected ==
    (MembershipClaimed /\ vargs.kj \notin set) =>
        /\ vargs.commitment = commitment
        /\ vargs.phi_hat_kj = Some(apply(phi_hat, vargs.kj))
        /\ g1mul(scalar_sub(Alpha, vargs.kj), vargs.witness) =
              g1sub(g1sub(commitment, g1mul(apply(phi, vargs.kj), g1)),
                    g1mul(apply(phi_hat, vargs.kj), pk.h1))
        /\ result = FALSE

C29_Witness ==
    /\ MembershipClaimed
    /\ vargs.kj \notin set
    /\ Cardinality(set) = 2
    /\ vargs.pi_sj # None
    /\ Alpha = vargs.kj
    /\ Lambda # 0
    /\ vargs.witness # 0

C29_WitnessMember ==
    MembershipClaimed /\ vargs.kj \in set /\ Cardinality(set) = 2 /\ result = TRUE

====
